---- MODULE Spec2Model ----
(***************************************************************************)
(* Model of pkg/dimse: the Association (client.go, echo.go, find.go) and   *)
(* the ConnectionPool (pool.go) of the DICOM connector.                    *)
(*                                                                         *)
(* Callers are goroutines that call the exported methods.  A step that     *)
(* starts with mu.Lock() is enabled only while that mutex is free (Go's    *)
(* sync.Mutex is not reentrant), so a caller waiting for a mutex is a      *)
(* caller whose step is not enabled.  A method body that runs under one    *)
(* mutex without blocking I/O in between is one step; Connect, which does  *)
(* its dial and its handshake under a.mu, is several.                      *)
(***************************************************************************)
EXTENDS Integers, Sequences, FiniteSets, TLC

(* ---- bounds of the model ---- *)
NumCallers == 2
MaxAssoc == 2
MaxTime == 2

(* The pools under test are configured (PoolConfig) with a MaxPoolSize of 1
   up to MaxPoolSize and with a MaxIdleTime of MaxIdleTime ticks of the clock. *)
MaxPoolSize == 2
MaxIdleTime == 1

Callers == 1..NumCallers
Assocs == 1..MaxAssoc
NoThread == 0
NoAssoc == 0

VARIABLES
    maxSize,       \* ConnectionPool.maxSize
    nextId,        \* the Association the next NewAssociation creates
    assoc,         \* the Association objects: isConnected, conn, lastUsed, mu, released
    connections,   \* ConnectionPool.connections: the idle list
    pmu,           \* ConnectionPool.mu: NoThread or the caller holding it
    done,          \* ConnectionPool.done is closed (cleanupTicker stopped with it)
    tickPending,   \* a tick was left in cleanupTicker.C when the ticker was stopped
    sweeper,       \* the cleanup goroutine: "running" or "exited"
    panicked,      \* the process died of a runtime panic
    now,           \* time.Now()
    pc,            \* per caller: where it is in the method it called
    op,            \* per caller: the exported method it is in the middle of
    cur,           \* per caller: the Association that method works on
    held,          \* per caller: the Associations Get handed to it, not yet Put
    out,           \* the call that returned in the step just taken: who, method,
                   \* association, what it did and returned; NoOut when none did
    io,            \* the network I/O of the step just taken: what was written,
                   \* what the peer had sent for its reads, whether the caller's
                   \* context was cancelled meanwhile, the Results handed back
    config,        \* AssociationConfig: the called and calling AE titles, as bytes
    pdu            \* the A-ASSOCIATE-RQ built by buildAssociateRequestPDU, once built

vars == <<maxSize, nextId, assoc, connections, pmu, done, tickPending, sweeper,
          panicked, now, pc, op, cur, held, out, io, config, pdu>>

(* NewAssociation: no transport, not connected, zero lastUsed.  released
   counts the A-RELEASE-RQ PDUs written to the current transport. *)
NewAssociation ==
    [isConnected |-> FALSE, conn |-> "nil", lastUsed |-> 0, mu |-> NoThread, released |-> 0]

NoOut == [who |-> NoThread, op |-> "none", a |-> NoAssoc, res |-> "none"]
Sweeper == NumCallers + 1

(* A step without network I/O. *)
NoIo == [wrote |-> "none", reply |-> "none", rsps |-> <<>>, cancelled |-> FALSE,
         results |-> <<>>, closed |-> "none"]

(* ---- the A-ASSOCIATE-RQ: client.go, buildAssociateRequestPDU ---- *)

(* Strings are the sequences of their bytes. *)

(* The titles of the tests: CalledAET "ORTHANC", CallingAET "DICOM_CONNECTOR". *)
TestConfig ==
    [calledAET |-> <<79, 82, 84, 72, 65, 78, 67>>,
     callingAET |-> <<68, 73, 67, 79, 77, 95, 67, 79, 78, 78, 69, 67, 84, 79, 82>>]

(* AssociationConfig.MaxPDULength as NewAssociation sets it by default. *)
MaxPDULength == 16384

(* byte(n>>8), byte(n) and byte(n>>24), byte(n>>16), byte(n>>8), byte(n) *)
U16(n) == <<(n \div 256) % 256, n % 256>>
U32(n) == <<(n \div 16777216) % 256, (n \div 65536) % 256, (n \div 256) % 256, n % 256>>

(* padAET: 16 bytes, the title's bytes first, then spaces. *)
PadAET(aet) == [i \in 1..16 |-> IF i <= Len(aet) THEN aet[i] ELSE 32]

(* An item or sub-item: type byte, reserved byte, 2-byte length, body. *)
Item(type, body) == <<type, 0>> \o U16(Len(body)) \o body

(* "1.2.840.10008.3.1.1.1" *)
ApplicationContextUID == <<49, 46, 50, 46, 56, 52, 48, 46, 49, 48, 48, 48, 56, 46, 51, 46, 49, 46, 49, 46, 49>>

(* buildApplicationContext *)
BuildApplicationContext == Item(16, ApplicationContextUID)

(* sopClasses of buildPresentationContexts *)
SopClasses ==
    <<<<49, 46, 50, 46, 56, 52, 48, 46, 49, 48, 48, 48, 56, 46, 53, 46, 49, 46, 52, 46, 49, 46, 50, 46, 49, 46, 49>>,
      <<49, 46, 50, 46, 56, 52, 48, 46, 49, 48, 48, 48, 56, 46, 53, 46, 49, 46, 52, 46, 49, 46, 50, 46, 49, 46, 50>>,
      <<49, 46, 50, 46, 56, 52, 48, 46, 49, 48, 48, 48, 56, 46, 53, 46, 49, 46, 52, 46, 49, 46, 50, 46, 49, 46, 51>>,
      <<49, 46, 50, 46, 56, 52, 48, 46, 49, 48, 48, 48, 56, 46, 53, 46, 49, 46, 52, 46, 49, 46, 50, 46, 50, 46, 49>>,
      <<49, 46, 50, 46, 56, 52, 48, 46, 49, 48, 48, 48, 56, 46, 53, 46, 49, 46, 52, 46, 49, 46, 50, 46, 50, 46, 50>>,
      <<49, 46, 50, 46, 56, 52, 48, 46, 49, 48, 48, 48, 56, 46, 53, 46, 49, 46, 52, 46, 49, 46, 50, 46, 50, 46, 51>>,
      <<49, 46, 50, 46, 56, 52, 48, 46, 49, 48, 48, 48, 56, 46, 49, 46, 49>>>>

(* transferSyntaxes of buildPresentationContext *)
TransferSyntaxes ==
    <<<<49, 46, 50, 46, 56, 52, 48, 46, 49, 48, 48, 48, 56, 46, 49, 46, 50>>,
      <<49, 46, 50, 46, 56, 52, 48, 46, 49, 48, 48, 48, 56, 46, 49, 46, 50, 46, 49>>,
      <<49, 46, 50, 46, 56, 52, 48, 46, 49, 48, 48, 48, 56, 46, 49, 46, 50, 46, 50>>>>

(* buildPresentationContext: id, 3 reserved bytes, the abstract syntax, the
   transfer syntaxes; the length is that of the item less its 4 first bytes. *)
BuildPresentationContext(id, sopClass) ==
    Item(32, <<id, 0, 0, 0>> \o Item(48, sopClass)
               \o Item(64, TransferSyntaxes[1]) \o Item(64, TransferSyntaxes[2])
               \o Item(64, TransferSyntaxes[3]))

(* buildPresentationContexts: one item per SOP class, ids 1, 3, 5, ... *)
RECURSIVE PresentationContextsFrom(_)
PresentationContextsFrom(i) ==
    IF i > Len(SopClasses) THEN <<>>
    ELSE BuildPresentationContext((2 * i - 1) % 256, SopClasses[i])
           \o PresentationContextsFrom(i + 1)

BuildPresentationContexts == PresentationContextsFrom(1)

(* "1.2.826.0.1.3680043.9.7433.1.1" and "DICOM_CONNECTOR_V1" *)
ImplClassUID == <<49, 46, 50, 46, 56, 50, 54, 46, 48, 46, 49, 46, 51, 54, 56, 48, 48, 52, 51, 46, 57, 46, 55, 52, 51, 51, 46, 49, 46, 49>>
ImplVersion == <<68, 73, 67, 79, 77, 95, 67, 79, 78, 78, 69, 67, 84, 79, 82, 95, 86, 49>>

(* buildUserInformation *)
BuildUserInformation ==
    Item(80, Item(81, U32(MaxPDULength)) \o Item(82, ImplClassUID) \o Item(85, ImplVersion))

(* buildAssociateRequestPDU: the bytes are appended in turn - type, reserved,
   protocol version, 2 reserved, the titles, 32 reserved, the items - and
   then "bytes 2-5 of header" are set to the length. *)
BuildAssociateRequestPDU(cfg) ==
    LET appended == <<1, 0>> \o <<0, 1>> \o <<0, 0>>
                      \o PadAET(cfg.calledAET) \o PadAET(cfg.callingAET)
                      \o [i \in 1..32 |-> 0]
                      \o BuildApplicationContext
                      \o BuildPresentationContexts
                      \o BuildUserInformation
        length == Len(appended) - 6
    IN [i \in 1..Len(appended) |->
          IF i \in 3..6 THEN U32(length)[i - 2] ELSE appended[i]]

Init ==
    /\ maxSize \in 1..MaxPoolSize
    /\ nextId = 1
    /\ assoc = [a \in Assocs |-> NewAssociation]
    /\ connections = <<>>
    /\ pmu = NoThread
    /\ done = FALSE
    /\ tickPending = FALSE
    /\ sweeper = "running"
    /\ panicked = FALSE
    /\ now = 0
    /\ pc = [t \in Callers |-> "idle"]
    /\ op = [t \in Callers |-> "none"]
    /\ cur = [t \in Callers |-> NoAssoc]
    /\ held = [t \in Callers |-> {}]
    /\ out = NoOut
    /\ io = NoIo
    /\ config = TestConfig
    /\ pdu = <<>>

Alive == ~panicked

(* The Associations created so far. *)
Allocated == 1..(nextId - 1)

(* ---- what a caller does when a method returns or moves on ---- *)
Ret(t, o, a, res) ==
    /\ pc' = [pc EXCEPT ![t] = "idle"]
    /\ op' = [op EXCEPT ![t] = "none"]
    /\ cur' = [cur EXCEPT ![t] = NoAssoc]
    /\ out' = [who |-> t, op |-> o, a |-> a, res |-> res]

Goto(t, p, o, a) ==
    /\ pc' = [pc EXCEPT ![t] = p]
    /\ op' = [op EXCEPT ![t] = o]
    /\ cur' = [cur EXCEPT ![t] = a]
    /\ out' = NoOut

(* ---- Association: client.go ---- *)

(* Close that writes the A-RELEASE-RQ and closes the transport but leaves
   isConnected set. *)
AssocCloseKeepsFlag(s) ==
    IF ~s.isConnected
    THEN s
    ELSE [s EXCEPT !.conn = "closed", !.released = @ + 1]

(* Close that returns without doing anything. *)
AssocCloseNothing(s) == s

(* Association.Close on the object state s, the mutex apart: nothing when not
   connected; otherwise one A-RELEASE-RQ is written (a failed write is only
   printed), isConnected becomes false and the transport is closed. *)
AssocClose(s) ==
    IF ~s.isConnected
    THEN s
    ELSE [s EXCEPT !.isConnected = FALSE, !.conn = "closed", !.released = @ + 1]

(* Connect that would set the fields without holding a.mu. *)
AssocDialedUnlocked(s, t) ==
    [s EXCEPT !.conn = "open", !.isConnected = TRUE, !.lastUsed = now,
              !.mu = NoThread, !.released = 0]

(* Connect after a successful dial: a.conn, a.isConnected, a.lastUsed are set
   before the handshake; the mutex stays held by the caller t. *)
AssocDialed(s, t) ==
    [s EXCEPT !.conn = "open", !.isConnected = TRUE, !.lastUsed = now,
              !.mu = t, !.released = 0]

(* UpdateLastUsed *)
AssocTouched(s) == [s EXCEPT !.lastUsed = now]

(* The caller's context may be cancelled while a read waits for the peer.
   Of these runs the model follows those where the peer's answer is one of
   whole: it then comes complete all the same, or it never comes. *)
WithCancel(answers, whole) ==
    {[peer |-> p, cancelled |-> FALSE] : p \in answers}
      \cup {[peer |-> p, cancelled |-> TRUE] : p \in whole}

(* The replies a peer can give to the A-ASSOCIATE-RQ: the PDU whose type byte
   is read, a read error, or nothing before the read deadline.  An
   A-ASSOCIATE-AC comes with an accepted presentation context ("AC"), with
   none accepted ("AC0"), or with fewer body bytes on the stream than its
   header announces ("ACpart"). *)
HandshakeReplies == {"AC", "AC0", "ACpart", "RJ", "otherPDU", "readError", "timeout"}

(* receiveAssociateResponse returns nil exactly for a PDU of type 0x02 of
   whose body a Read got some bytes: the body is not parsed and the count of
   bytes read is not looked at. *)
ReceiveAssociateOk(reply) == reply \in {"AC", "AC0", "ACpart"}

(* What the code that called Connect does with Connect's result.  Get unlocks
   the pool and hands the association out (an association whose dial failed
   is dropped: no pointer to it is left, and the next NewAssociation stands
   for it); CEcho and CFind go on to their exchange; a direct caller gets the
   result. *)
ConnectReturn(t, a, o, failed, how) ==
    IF o = "Get"
    THEN /\ pmu' = NoThread
         /\ held' = [held EXCEPT ![t] = IF failed THEN @ ELSE @ \cup {a}]
         /\ nextId' = IF failed THEN nextId - 1 ELSE nextId
         /\ Ret(t, o, IF failed THEN NoAssoc ELSE a, IF failed THEN "err" ELSE "created")
    ELSE /\ UNCHANGED <<pmu, held, nextId>>
         /\ IF o \in {"CEcho", "CFind"} /\ ~failed
            THEN Goto(t, IF o = "CEcho" THEN "echo_send" ELSE "find_send", o, a)
            ELSE Ret(t, o, a, IF failed THEN "err" ELSE how)

(* Connect is called by a caller on an association it holds, or by Get, CEcho
   or CFind, which left the caller at "connect". *)
ConnectCalled(t, a) ==
    \/ pc[t] = "idle" /\ a \in held[t]
    \/ pc[t] = "connect" /\ cur[t] = a

(* Connect without its first test. *)
AlreadyConnectedNever(s) == FALSE

(* "if a.isConnected { return nil }", read under a.mu. *)
AlreadyConnected(s) == s.isConnected

(* Connect, up to the dial: lock a.mu; return nil when already connected;
   dial; on a dial error return it; else record the transport. *)
Connect(t, a) ==
    /\ Alive /\ ConnectCalled(t, a)
    /\ assoc[a].mu = NoThread
    /\ LET o == IF pc[t] = "idle" THEN "Connect" ELSE op[t] IN
       IF AlreadyConnected(assoc[a])
       THEN /\ ConnectReturn(t, a, o, FALSE, "already")
            /\ UNCHANGED assoc
       ELSE \E dialOk \in BOOLEAN :
              IF dialOk
              THEN /\ assoc' = [assoc EXCEPT ![a] = AssocDialed(@, t)]
                   /\ Goto(t, "handshake", o, a)
                   /\ UNCHANGED <<pmu, held, nextId>>
              ELSE /\ ConnectReturn(t, a, o, TRUE, "err")
                   /\ UNCHANGED assoc
    /\ io' = NoIo
    /\ UNCHANGED <<config, pdu, maxSize, connections, done, tickPending, sweeper, panicked, now>>

(* The handshake, with a.mu held: sendAssociateRequest's write fails, or it
   succeeds and receiveAssociateResponse gets the peer's reply.  On
   A-ASSOCIATE-AC Connect returns nil (deferred unlock); on any error Connect
   calls a.Close() with a.mu still held. *)
Handshake(t) ==
    /\ Alive /\ pc[t] = "handshake"
    /\ \E w \in WithCancel(HandshakeReplies \cup {"writeError"}, {"AC", "timeout"}) :
       LET reply == w.peer IN
         /\ IF reply # "writeError" /\ ReceiveAssociateOk(reply)
            THEN /\ assoc' = [assoc EXCEPT ![cur[t]].mu = NoThread]
                 /\ ConnectReturn(t, cur[t], op[t], FALSE, "connected")
            ELSE /\ Goto(t, "close", op[t], cur[t])
                 /\ UNCHANGED <<assoc, pmu, held, nextId>>
         /\ io' = [NoIo EXCEPT !.wrote = "RQ", !.reply = reply, !.cancelled = w.cancelled]
    /\ UNCHANGED <<config, pdu, maxSize, connections, done, tickPending, sweeper, panicked, now>>

(* Close that returns the error of the A-RELEASE-RQ write. *)
CloseResultWithWriteError(connected, releaseErr, closeErr) ==
    IF ~connected THEN "noop"
    ELSE IF releaseErr \/ closeErr THEN "err" ELSE "released"

(* What Close returns: nil when not connected; else what conn.Close()
   returns, the error of sendReleaseRequest being printed and dropped. *)
CloseResult(connected, releaseErr, closeErr) ==
    IF ~connected THEN "noop"
    ELSE IF closeErr THEN "err" ELSE "released"

(* Close is called by a caller through any pointer to an association, or by
   Connect's error path, which left the caller at "close". *)
CloseCalled(t, a) ==
    \/ pc[t] = "idle" /\ a \in Allocated
    \/ pc[t] = "close" /\ cur[t] = a

(* Close: lock a.mu, then the body.  Called by a caller the result is nil
   when not connected, else what conn.Close() returns.  Called from Connect's
   error path, Connect then returns its error and its deferred Unlock finds
   the mutex already unlocked, which is fatal. *)
Close(t, a) ==
    /\ Alive /\ CloseCalled(t, a)
    /\ assoc[a].mu = NoThread
    /\ \E closeErr, releaseErr \in BOOLEAN :
         /\ closeErr \/ releaseErr => assoc[a].isConnected
         /\ assoc' = [assoc EXCEPT ![a] = AssocClose(@)]
         /\ IF pc[t] = "idle"
            THEN /\ Ret(t, "Close", a, CloseResult(assoc[a].isConnected, releaseErr, closeErr))
                 /\ UNCHANGED <<pmu, held, nextId, panicked>>
            ELSE /\ ConnectReturn(t, a, op[t], TRUE, "err")
                 /\ panicked' = TRUE
         /\ io' = [NoIo EXCEPT
                    !.wrote = IF ~assoc[a].isConnected THEN "none"
                              ELSE IF releaseErr THEN "releaseFailed" ELSE "release",
                    !.closed = IF ~assoc[a].isConnected THEN "none"
                               ELSE IF closeErr THEN "error" ELSE "ok"]
    /\ UNCHANGED <<config, pdu, maxSize, connections, done, tickPending, sweeper, now>>

(* ---- DIMSE operations: echo.go, find.go ---- *)

StatusSuccess == 0
StatusPending == 65280
StatusFailure == 42752

(* The status a peer puts into its response: success, pending, a failure. *)
PeerStatuses == {StatusSuccess, StatusPending, StatusFailure}

(* A response PDU as the peer sends it: its status, its dataset (pending
   C-FIND responses carry one) and how much of the body its header announces
   reaches the stream before the read deadline. *)
Rsp(st, d, b) == [status |-> st, data |-> d, body |-> b]

(* What a peer sends after a C-ECHO-RQ: nothing, or one response. *)
EchoScripts ==
    {<<>>, <<Rsp(StatusSuccess, "none", "none")>>}
      \cup {<<Rsp(st, "none", b)>> : st \in PeerStatuses, b \in {"all", "part"}}

(* What a peer sends after a C-FIND-RQ: pending responses, each with a
   dataset, then a final one; or less than that. *)
FindScripts ==
    {<<>>,
     <<Rsp(StatusSuccess, "none", "all")>>,
     <<Rsp(StatusSuccess, "none", "part")>>,
     <<Rsp(StatusFailure, "none", "all")>>,
     <<Rsp(StatusPending, "A", "all")>>,
     <<Rsp(StatusPending, "A", "all"), Rsp(StatusSuccess, "none", "all")>>,
     <<Rsp(StatusPending, "A", "part"), Rsp(StatusSuccess, "none", "all")>>,
     <<Rsp(StatusPending, "A", "all"), Rsp(StatusFailure, "none", "all")>>,
     <<Rsp(StatusPending, "A", "all"), Rsp(StatusPending, "B", "all"),
       Rsp(StatusSuccess, "none", "all")>>,
     <<Rsp(StatusPending, "B", "all"), Rsp(StatusPending, "A", "all"),
       Rsp(StatusSuccess, "none", "all")>>}

(* getCommandStatus that fails every response. *)
GetCommandStatusFailure(rsp) == StatusFailure

(* getCommandStatus: the response is not parsed; the result is 0x0000. *)
GetCommandStatus(rsp) == StatusSuccess

(* parseDICOMDataset: the response is not parsed; the result is an empty map. *)
ParseDICOMDataset(rsp) == "empty"

(* The second conn.Read of a receive (receiveCommand, and likewise
   receiveAssociateResponse) returns an error only when no byte of the body
   arrives; the number of bytes it got is dropped. *)
ReadBodyOk(body) == body # "none"

(* receiveCommand on what the peer has sent: an error when no header comes or
   the body read fails, else the body buffer. *)
ReceiveCommand(rsps) ==
    IF rsps = <<>> \/ ~ReadBodyOk(Head(rsps).body)
    THEN [err |-> TRUE, rsp |-> Rsp(StatusSuccess, "none", "none")]
    ELSE [err |-> FALSE, rsp |-> Head(rsps)]

(* CEcho from receiveCommand on: what it returns. *)
CEchoResult(rsps) ==
    IF ReceiveCommand(rsps).err THEN "recvErr"
    ELSE IF GetCommandStatus(ReceiveCommand(rsps).rsp) # StatusSuccess THEN "statusErr"
    ELSE "ok"

(* CFind's receive loop on what the peer sends, results being
   response.Results so far: what CFind returns, and the Results (nil with an
   error). *)
RECURSIVE CFindLoop(_, _)
CFindLoop(rsps, results) ==
    IF ReceiveCommand(rsps).err
    THEN [res |-> "recvErr", results |-> <<>>]
    ELSE LET rsp == ReceiveCommand(rsps).rsp
             status == GetCommandStatus(rsp)
         IN IF status = StatusPending
            THEN CFindLoop(Tail(rsps), Append(results, ParseDICOMDataset(rsp)))
            ELSE IF status = StatusSuccess
            THEN [res |-> "ok", results |-> results]
            ELSE [res |-> "statusErr", results |-> <<>>]

(* The associations in callers' hands. *)
CheckedOut == UNION {held[t] : t \in Callers}

(* "if !a.IsConnected() { a.Connect(ctx) }": where CEcho and CFind go on. *)
AfterIsConnected(connected, send) == IF connected THEN send ELSE "connect"

(* CEcho, first lines: IsConnected (a.mu taken and released); when not
   connected, Connect is called. *)
CEchoBegin(t, a) ==
    /\ Alive /\ pc[t] = "idle" /\ a \in held[t]
    /\ assoc[a].mu = NoThread
    /\ Goto(t, AfterIsConnected(assoc[a].isConnected, "echo_send"), "CEcho", a)
    /\ io' = NoIo
    /\ UNCHANGED <<config, pdu, maxSize, nextId, assoc, connections, pmu, done, tickPending,
                   sweeper, panicked, now, held>>

(* UpdateLastUsed (a.mu taken and released), then sendCommand, which writes
   with no mutex held; a write to a closed transport fails.  A failed write
   ends the call with an error, the association left as it is. *)
SendCommand(t, next) ==
    /\ assoc[cur[t]].mu = NoThread
    /\ \E writeOk \in BOOLEAN :
         /\ writeOk => assoc[cur[t]].conn = "open"
         /\ assoc' = [assoc EXCEPT ![cur[t]] = AssocTouched(@)]
         /\ IF writeOk
            THEN Goto(t, next, op[t], cur[t])
            ELSE Ret(t, op[t], cur[t], "sendErr")
    /\ io' = [NoIo EXCEPT !.wrote = "cmd"]
    /\ UNCHANGED <<config, pdu, maxSize, nextId, connections, pmu, done, tickPending, sweeper,
                   panicked, now, held>>

(* CEcho: UpdateLastUsed and the write of the C-ECHO-RQ. *)
CEchoSend(t) ==
    /\ Alive /\ pc[t] = "echo_send"
    /\ SendCommand(t, "echo_recv")

(* CEcho: receiveCommand, with no mutex held and a read deadline but no look
   at ctx, then getCommandStatus.  A read from a closed transport fails.
   What had been sent and is not read by this call is not kept. *)
CEchoReceive(t) ==
    /\ Alive /\ pc[t] = "echo_recv"
    /\ \E w \in WithCancel(EchoScripts, {<<>>, <<Rsp(StatusSuccess, "none", "all")>>}) :
         /\ assoc[cur[t]].conn # "open" => w.peer = <<>>
         /\ Ret(t, "CEcho", cur[t], CEchoResult(w.peer))
         /\ io' = [NoIo EXCEPT !.rsps = w.peer, !.cancelled = w.cancelled]
    /\ UNCHANGED <<config, pdu, maxSize, nextId, assoc, connections, pmu, done, tickPending,
                   sweeper, panicked, now, held>>

(* CFind, first lines: as CEcho. *)
CFindBegin(t, a) ==
    /\ Alive /\ pc[t] = "idle" /\ a \in held[t]
    /\ assoc[a].mu = NoThread
    /\ Goto(t, AfterIsConnected(assoc[a].isConnected, "find_send"), "CFind", a)
    /\ io' = NoIo
    /\ UNCHANGED <<config, pdu, maxSize, nextId, assoc, connections, pmu, done, tickPending,
                   sweeper, panicked, now, held>>

(* CFind: UpdateLastUsed and the write of the C-FIND-RQ. *)
CFindSend(t) ==
    /\ Alive /\ pc[t] = "find_send"
    /\ SendCommand(t, "find_recv")

(* CFind: the receive loop, as CEcho's receive. *)
CFindReceive(t) ==
    /\ Alive /\ pc[t] = "find_recv"
    /\ \E w \in WithCancel(FindScripts, {<<>>, <<Rsp(StatusSuccess, "none", "all")>>}) :
         /\ assoc[cur[t]].conn # "open" => w.peer = <<>>
         /\ Ret(t, "CFind", cur[t], CFindLoop(w.peer, <<>>).res)
         /\ io' = [NoIo EXCEPT !.rsps = w.peer, !.cancelled = w.cancelled,
                               !.results = CFindLoop(w.peer, <<>>).results]
    /\ UNCHANGED <<config, pdu, maxSize, nextId, assoc, connections, pmu, done, tickPending,
                   sweeper, panicked, now, held>>

(* ---- ConnectionPool: pool.go ---- *)

Idle == {connections[i] : i \in 1..Len(connections)}

(* The pool's loops call IsConnected, GetLastUsed or Close on each idle
   association, and each of these takes that association's mutex. *)
IdleUnlocked == \A a \in Idle : assoc[a].mu = NoThread

(* Get that leaves the entry it hands out in the idle list. *)
RemoveAtNothing(s, i) == s

(* append(p.connections[:i], p.connections[i+1:]...) *)
RemoveAt(s, i) == SubSeq(s, 1, i - 1) \o SubSeq(s, i + 1, Len(s))

(* Get's loop without the IsConnected test: it stops at the first entry. *)
FirstEntry == IF connections = <<>> THEN 0 ELSE 1

(* The index Get's loop stops at: the first idle association that is
   connected; 0 when there is none. *)
FirstConnected ==
    LET I == {i \in 1..Len(connections) : assoc[connections[i]].isConnected}
    IN IF I = {} THEN 0 ELSE CHOOSE i \in I : \A j \in I : i <= j

(* "Create new connection if pool not full" *)
PoolNotFull == Len(connections) < maxSize

(* Get: under p.mu, hand out the first connected idle association; else,
   when the idle list is shorter than maxSize, create an association and
   Connect it with p.mu held; else the pool is exhausted. *)
Get(t) ==
    /\ Alive /\ pc[t] = "idle"
    /\ pmu = NoThread
    /\ IdleUnlocked
    /\ IF FirstConnected # 0
       THEN /\ connections' = RemoveAt(connections, FirstConnected)
            /\ held' = [held EXCEPT ![t] = @ \cup {connections[FirstConnected]}]
            /\ Ret(t, "Get", connections[FirstConnected], "reused")
            /\ UNCHANGED <<nextId, pmu>>
       ELSE IF PoolNotFull
       THEN /\ nextId <= MaxAssoc
            /\ nextId' = nextId + 1
            /\ pmu' = t
            /\ Goto(t, "connect", "Get", nextId)
            /\ UNCHANGED <<connections, held>>
       ELSE /\ Ret(t, "Get", NoAssoc, "exhausted")
            /\ UNCHANGED <<nextId, connections, pmu, held>>
    /\ io' = NoIo
    /\ UNCHANGED <<config, pdu, maxSize, assoc, done, tickPending, sweeper, panicked, now>>

(* Put without the test of the idle list's length. *)
PutAddsUnbounded(a) == assoc[a].isConnected

(* Put without the IsConnected test. *)
PutAddsUnchecked(a) == Len(connections) < maxSize

(* "Only return healthy connections to pool", "Don't exceed max pool size" *)
PutAdds(a) == assoc[a].isConnected /\ Len(connections) < maxSize

(* Put: under p.mu, close an association that is not connected or that finds
   the idle list full; else append it.  The caller gives the association up. *)
Put(t, a) ==
    /\ Alive /\ pc[t] = "idle" /\ a \in held[t]
    /\ pmu = NoThread
    /\ assoc[a].mu = NoThread
    /\ IF PutAdds(a)
       THEN /\ connections' = Append(connections, a)
            /\ UNCHANGED assoc
       ELSE /\ assoc' = [assoc EXCEPT ![a] = AssocClose(@)]
            /\ UNCHANGED connections
    /\ held' = [held EXCEPT ![t] = @ \ {a}]
    /\ Ret(t, "Put", a, IF PutAdds(a) THEN "pooled" ELSE "closed")
    /\ io' = [NoIo EXCEPT !.wrote = IF ~PutAdds(a) /\ assoc[a].isConnected
                                     THEN "release" ELSE "none"]
    /\ UNCHANGED <<config, pdu, maxSize, nextId, pmu, done, tickPending, sweeper, panicked, now>>

(* removeIdleConnections with >= for >. *)
SweepKeepsOffByOne(a) == ~(now - assoc[a].lastUsed >= MaxIdleTime) /\ assoc[a].isConnected

(* removeIdleConnections keeps an idle association that was used within
   maxIdleTime and is connected. *)
SweepKeeps(a) == ~(now - assoc[a].lastUsed > MaxIdleTime) /\ assoc[a].isConnected

(* Close called on every association of S. *)
CloseAll(S) == [a \in Assocs |-> IF a \in S THEN AssocClose(assoc[a]) ELSE assoc[a]]

(* The cleanup goroutine takes a tick from cleanupTicker.C and runs
   removeIdleConnections under p.mu.  Until the ticker is stopped a tick
   comes sooner or later; once it is stopped, only a tick that was already
   buffered in the channel (capacity 1) is left to take. *)
Sweep ==
    /\ Alive /\ sweeper = "running"
    /\ ~done \/ tickPending
    /\ pmu = NoThread
    /\ IdleUnlocked
    /\ tickPending' = FALSE
    /\ connections' = SelectSeq(connections, SweepKeeps)
    /\ assoc' = CloseAll({a \in Idle : ~SweepKeeps(a)})
    /\ out' = [who |-> Sweeper, op |-> "Sweep", a |-> NoAssoc,
                res |-> IF \A a \in Idle : SweepKeeps(a) THEN "kept" ELSE "evicted"]
    /\ io' = [NoIo EXCEPT !.wrote = IF \E a \in Idle : ~SweepKeeps(a) /\ assoc[a].isConnected
                                     THEN "release" ELSE "none"]
    /\ UNCHANGED <<config, pdu, maxSize, nextId, pmu, done, sweeper, panicked, now, pc, op, cur, held>>

(* The cleanup goroutine returns once p.done is closed. *)
SweeperExit ==
    /\ Alive /\ sweeper = "running" /\ done
    /\ sweeper' = "exited"
    /\ out' = NoOut
    /\ io' = NoIo
    /\ UNCHANGED <<config, pdu, maxSize, nextId, assoc, connections, pmu, done, tickPending,
                   panicked, now, pc, op, cur, held>>

(* Pool.Close, before the lock: close(p.done), which panics on a channel
   that is already closed, and cleanupTicker.Stop(), which may or may not
   find a tick already buffered in the channel. *)
PoolCloseBegin(t) ==
    /\ Alive /\ pc[t] = "idle"
    /\ IF done
       THEN /\ panicked' = TRUE
            /\ out' = NoOut
            /\ UNCHANGED <<done, tickPending, pc, op, cur>>
       ELSE /\ done' = TRUE
            /\ tickPending' \in BOOLEAN
            /\ Goto(t, "poolclose_lock", "PoolClose", NoAssoc)
            /\ UNCHANGED panicked
    /\ io' = NoIo
    /\ UNCHANGED <<config, pdu, maxSize, nextId, assoc, connections, pmu, sweeper, now, held>>

(* Pool.Close, under p.mu: Close every idle association, drop the list; an
   error is returned when some conn.Close() returned one. *)
PoolCloseLocked(t) ==
    /\ Alive /\ pc[t] = "poolclose_lock"
    /\ pmu = NoThread
    /\ IdleUnlocked
    /\ \E closeErr \in BOOLEAN :
         /\ closeErr => \E a \in Idle : assoc[a].isConnected
         /\ assoc' = CloseAll(Idle)
         /\ connections' = <<>>
         /\ Ret(t, "PoolClose", NoAssoc, IF closeErr THEN "err" ELSE "closed")
    /\ io' = [NoIo EXCEPT !.wrote = IF \E a \in Idle : assoc[a].isConnected
                                     THEN "release" ELSE "none"]
    /\ UNCHANGED <<config, pdu, maxSize, nextId, pmu, done, tickPending, sweeper, panicked, now, held>>

(* Time passes. *)
Tick ==
    /\ Alive /\ now < MaxTime
    /\ now' = now + 1
    /\ out' = NoOut
    /\ io' = NoIo
    /\ UNCHANGED <<config, pdu, maxSize, nextId, assoc, connections, pmu, done, tickPending,
                   sweeper, panicked, pc, op, cur, held>>

CallerStep(t) ==
    \/ \E a \in Assocs : Connect(t, a)
    \/ Handshake(t)
    \/ \E a \in Assocs : Close(t, a)
    \/ \E a \in Assocs : CEchoBegin(t, a)
    \/ CEchoSend(t)
    \/ CEchoReceive(t)
    \/ \E a \in Assocs : CFindBegin(t, a)
    \/ CFindSend(t)
    \/ CFindReceive(t)
    \/ Get(t)
    \/ \E a \in Assocs : Put(t, a)
    \/ PoolCloseBegin(t)
    \/ PoolCloseLocked(t)

Next ==
    \/ \E t \in Callers : CallerStep(t)
    \/ Sweep
    \/ SweeperExit
    \/ Tick

Spec == Init /\ [][Next]_vars

(* A goroutine in the middle of a call runs on whenever it can: the Go
   scheduler does not starve a runnable goroutine.  Nothing obliges an idle
   caller to make another call. *)
Proceed(t) == pc[t] # "idle" /\ CallerStep(t)

FairSpec == Spec /\ \A t \in Callers : WF_vars(Proceed(t))

(* The application of TestCEcho: its Associations come from NewAssociation
   and are not connected; its goroutines share the pointers and call
   Connect, CEcho, CFind and Close on them.  They also hand them to the pool
   with Put, each goroutine through its own copy of the pointer, and take
   them back with Get. *)
SharedInit ==
    /\ maxSize = MaxPoolSize
    /\ nextId = MaxAssoc + 1
    /\ assoc = [a \in Assocs |-> NewAssociation]
    /\ connections = <<>>
    /\ pmu = NoThread
    /\ done = FALSE
    /\ tickPending = FALSE
    /\ sweeper = "running"
    /\ panicked = FALSE
    /\ now = 0
    /\ pc = [t \in Callers |-> "idle"]
    /\ op = [t \in Callers |-> "none"]
    /\ cur = [t \in Callers |-> NoAssoc]
    /\ held = [t \in Callers |-> Assocs]
    /\ out = NoOut
    /\ io = NoIo
    /\ config = TestConfig
    /\ pdu = <<>>

SharedStep(t) ==
    \/ \E a \in Assocs : Connect(t, a)
    \/ Handshake(t)
    \/ \E a \in Assocs : Close(t, a)
    \/ \E a \in Assocs : CEchoBegin(t, a)
    \/ CEchoSend(t)
    \/ CEchoReceive(t)
    \/ \E a \in Assocs : CFindBegin(t, a)
    \/ CFindSend(t)
    \/ CFindReceive(t)
    \/ Get(t)
    \/ \E a \in Assocs : Put(t, a)

SharedNext ==
    \/ \E t \in Callers : SharedStep(t)
    \/ Tick

SharedSpec == SharedInit /\ [][SharedNext]_vars

(* The titles an AssociationConfig is given: up to MaxAETLen bytes of "A", "B". *)
MaxAETLen == 3

AETs == UNION {[1..n -> {65, 66}] : n \in 0..MaxAETLen}

(* An Association made with NewAssociation from some configuration builds
   its A-ASSOCIATE-RQ. *)
PduInit ==
    /\ config \in [calledAET : AETs, callingAET : AETs]
    /\ pdu = <<>>
    /\ maxSize = MaxPoolSize
    /\ nextId = 1
    /\ assoc = [a \in Assocs |-> NewAssociation]
    /\ connections = <<>>
    /\ pmu = NoThread
    /\ done = FALSE
    /\ tickPending = FALSE
    /\ sweeper = "running"
    /\ panicked = FALSE
    /\ now = 0
    /\ pc = [t \in Callers |-> "idle"]
    /\ op = [t \in Callers |-> "none"]
    /\ cur = [t \in Callers |-> NoAssoc]
    /\ held = [t \in Callers |-> {}]
    /\ out = NoOut
    /\ io = NoIo

BuildRequest ==
    /\ pdu = <<>>
    /\ pdu' = BuildAssociateRequestPDU(config)
    /\ UNCHANGED <<config, maxSize, nextId, assoc, connections, pmu, done, tickPending,
                   sweeper, panicked, now, pc, op, cur, held, out, io>>

PduNext == BuildRequest

PduSpec == PduInit /\ [][PduNext]_vars

(* ---- the properties ---- *)

(* Steps as they show in the state: the caller t returns from method o on
   association a in this step; Get starts or ends in this step (it ends in a
   later one when it creates an association); a caller's Connect dials. *)
Returns(t, o, a) == out'.who = t /\ out'.op = o /\ out'.a = a

GetStep(t) ==
    /\ pc[t] = "idle"
    /\ \/ out'.who = t /\ out'.op = "Get"
       \/ pc'[t] = "connect" /\ op'[t] = "Get"

ConnectStep(t) ==
    \/ out'.who = t /\ out'.op = "Connect"
    \/ op'[t] = "Connect" /\ pc'[t] # pc[t]

(* The idle count Stats reports: TotalConnections = len(p.connections). *)
TotalConnections == Len(connections)

(* C1: when as many associations as the pool's capacity are checked out and
   none has been Put back, a further Get returns "connection pool exhausted"
   at once: it opens no connection and does not wait. *)
C1_ExhaustedAtCapacity ==
    [][\A t \in Callers :
         (GetStep(t) /\ connections = <<>> /\ Cardinality(CheckedOut) >= maxSize)
           => (out'.who = t /\ out'.res = "exhausted" /\ nextId' = nextId)]_vars

(* C2: no association is in two callers' hands at once, and none is at once
   in the idle list and in a caller's hands. *)
C2_ExclusiveHolding ==
    /\ \A t1, t2 \in Callers : t1 # t2 => held[t1] \cap held[t2] = {}
    /\ \A t \in Callers : held[t] \cap Idle = {}
    /\ \A i, j \in 1..Len(connections) : i # j => connections[i] # connections[j]

(* A caller has in its hands an association that went through the idle list
   (Get handed it out from there) while the other caller holds another. *)
C2_Witness ==
    \E t1, t2 \in Callers :
      /\ t1 # t2
      /\ out.who = t1 /\ out.op = "Get" /\ out.res = "reused" /\ out.a \in held[t1]
      /\ held[t2] # {}

(* C3: whenever some idle association is connected, Get returns one of the
   connected idle associations, takes exactly that entry out of the idle list,
   the others staying in their order, and opens no transport. *)
C3_GetReusesIdle ==
    [][\A t \in Callers :
         (GetStep(t) /\ \E a \in Idle : assoc[a].isConnected)
           => \E i \in 1..Len(connections) :
                /\ assoc[connections[i]].isConnected
                /\ out' = [who |-> t, op |-> "Get", a |-> connections[i], res |-> "reused"]
                /\ held'[t] = held[t] \cup {connections[i]}
                /\ Len(connections') = Len(connections) - 1
                /\ \A j \in 1..(i - 1) : connections'[j] = connections[j]
                /\ \A j \in i..(Len(connections) - 1) : connections'[j] = connections[j + 1]
                /\ assoc' = assoc
                /\ nextId' = nextId]_vars

(* Get has just handed out an idle association that was not the first entry
   of the idle list: the entry before it, not connected, is still there. *)
C3_Witness ==
    /\ out.op = "Get" /\ out.res = "reused"
    /\ Len(connections) = 1
    /\ ~assoc[connections[1]].isConnected

(* C4: Put adds the association to the idle list if and only if it is
   connected and the idle list holds fewer than maxSize entries, and then the
   idle count grows by exactly 1; otherwise the idle list stays as it is and
   the association ends closed. *)
C4_PutRecyclesHealthy ==
    [][\A t \in Callers, a \in Assocs :
         Returns(t, "Put", a)
           => IF assoc[a].isConnected /\ Len(connections) < maxSize
              THEN /\ connections' = Append(connections, a)
                   /\ Len(connections') = Len(connections) + 1
                   /\ assoc'[a].isConnected
              ELSE /\ connections' = connections
                   /\ ~assoc'[a].isConnected
                   /\ assoc'[a].conn # "open"]_vars

(* Put has just put an association into the empty idle list: Stats reports
   one connection. *)
C4_Witness ==
    /\ out.op = "Put" /\ out.res = "pooled"
    /\ TotalConnections = 1
    /\ assoc[out.a].isConnected

(* C5: after a run of removeIdleConnections the idle list is the previous one
   restricted, in order, to the associations that are connected and whose
   idle time does not exceed MaxIdleTime; every association taken out is
   closed. *)
C5_SweepEvictsIdle ==
    [][out'.op = "Sweep"
         => LET Fresh(a) == assoc[a].isConnected /\ now - assoc[a].lastUsed <= MaxIdleTime
            IN /\ connections' = SelectSeq(connections, Fresh)
               /\ \A a \in Idle :
                    ~Fresh(a) => ~assoc'[a].isConnected /\ assoc'[a].conn = "closed"
               /\ \A a \in Assocs : Fresh(a) \/ a \notin Idle => assoc'[a] = assoc[a]]_vars

(* A sweep has just closed an association that had been idle for too long and
   kept another. *)
C5_Witness ==
    /\ out.op = "Sweep" /\ out.res = "evicted"
    /\ Len(connections) = 1
    /\ \E a \in Allocated \ Idle :
         /\ a \notin CheckedOut
         /\ ~assoc[a].isConnected
         /\ now - assoc[a].lastUsed > MaxIdleTime

(* C6: when Pool.Close has returned, every association obtained from the
   pool is closed: the idle ones and the checked-out ones. *)
C6_PoolCloseClosesAll ==
    out.op = "PoolClose" => \A a \in Allocated : ~assoc[a].isConnected

(* C7: when the handshake fails (A-ASSOCIATE-RJ or another PDU than AC, a
   failed or timed-out read or write), Connect returns an error to its caller
   and leaves the association closed. *)
C7_ConnectFailsClosed ==
    \A t \in Callers, a \in Assocs :
      (pc[t] = "close" /\ cur[t] = a)
        ~> (out.who = t /\ out.res = "err" /\ ~assoc[a].isConnected)

(* C8: Close is idempotent.  A Close leaves the association not connected,
   so that a later Close, by the same or by another caller, finds it so; a
   Close that finds the association not connected returns nil and writes
   nothing; no transport ever gets more than one A-RELEASE-RQ. *)
C8_CloseIdempotent ==
    [][\A t \in Callers, a \in Assocs :
         Returns(t, "Close", a)
           => /\ ~assoc'[a].isConnected
              /\ assoc'[a].released <= 1
              /\ ~assoc[a].isConnected
                   => /\ out' = [who |-> t, op |-> "Close", a |-> a, res |-> "noop"]
                      /\ assoc' = assoc]_vars

(* A caller has just called Close on an association whose transport had
   already been closed, after one A-RELEASE-RQ. *)
C8_Witness ==
    /\ out.op = "Close" /\ out.res = "noop"
    /\ assoc[out.a].conn = "closed"
    /\ assoc[out.a].released = 1

(* C9: a successful Connect followed at once by Close leaves the association
   closed and the pool's idle list as it was: no step of a Connect or of a
   Close that a caller makes changes the idle list, and the Close that
   follows the Connect (called by the caller, or by Get on the association
   it has just created) ends with the association not connected and its
   transport closed. *)
C9_ConnectCloseLeavesPool ==
    [][\A t \in Callers, a \in Assocs :
         /\ ConnectStep(t) => connections' = connections
         /\ Returns(t, "Close", a) => connections' = connections
         /\ (/\ \/ out = [who |-> t, op |-> "Connect", a |-> a, res |-> "connected"]
                \/ out = [who |-> t, op |-> "Get", a |-> a, res |-> "created"]
             /\ Returns(t, "Close", a))
              => /\ ~assoc'[a].isConnected
                 /\ assoc'[a].conn = "closed"
                 /\ connections' = connections]_vars

(* A caller has just closed an association that was connected, while the idle
   list was not empty. *)
C9_Witness ==
    /\ out.op = "Close" /\ out.res = "released"
    /\ out.a \in held[out.who]
    /\ assoc[out.a].lastUsed = now
    /\ connections # <<>>

(* C10: once an association has been closed, it never becomes connected
   again, whatever is called on it. *)
C10_NoRevival ==
    [][\A a \in Assocs :
         assoc[a].conn = "closed" => ~assoc'[a].isConnected /\ assoc'[a].conn = "closed"]_vars

(* The caller t takes a step in the middle of, or at the end of, the call
   it is in. *)
Acts(t) == pc[t] # "idle" /\ pc'[t] # pc[t]

(* C11: CEcho on an association that is not connected calls Connect before
   it writes its request, and when that Connect fails CEcho returns Connect's
   error, no command written.  Here: once the handshake of the Connect that
   CEcho called has failed, CEcho returns that error. *)
C11_CEchoReturnsConnectError ==
    \A t \in Callers :
      (op[t] = "CEcho" /\ pc[t] = "close")
        ~> (out.who = t /\ out.op = "CEcho" /\ out.res = "err")

(* C12: when the peer answers the C-ECHO-RQ written on an established
   association with a complete C-ECHO-RSP of status 0x0000, CEcho returns no
   error. *)
C12_EchoSuccess ==
    [][\A t \in Callers, a \in Assocs :
         (/\ pc[t] = "echo_recv" /\ Returns(t, "CEcho", a)
          /\ assoc[a].isConnected /\ assoc[a].conn = "open"
          /\ io'.rsps = <<Rsp(StatusSuccess, "none", "all")>>)
           => out'.res = "ok" /\ assoc'[a] = assoc[a]]_vars

(* CEcho has just returned nil on an association it had to connect itself,
   the peer having answered with status 0x0000. *)
C12_Witness ==
    /\ out.op = "CEcho" /\ out.res = "ok"
    /\ io.rsps = <<Rsp(StatusSuccess, "none", "all")>>
    /\ ~io.cancelled
    /\ assoc[out.a].isConnected
    /\ assoc[out.a].lastUsed = now

(* C13: when CEcho has read a C-ECHO-RSP, it returns success exactly when
   the status of that response is 0x0000, and the error for its status
   otherwise. *)
C13_EchoStatusSurfaced ==
    [][\A t \in Callers, a \in Assocs :
         (/\ pc[t] = "echo_recv" /\ Returns(t, "CEcho", a)
          /\ io'.rsps # <<>> /\ Head(io'.rsps).body = "all")
           => /\ out'.res = "ok" <=> Head(io'.rsps).status = StatusSuccess
              /\ out'.res = "statusErr" <=> Head(io'.rsps).status # StatusSuccess]_vars

(* C14: when the peer answers the C-FIND-RQ with complete pending responses
   and then a complete response of status 0x0000, CFind returns without
   error the datasets of the pending responses, one each, in their order. *)
C14_FindYieldsPending ==
    [][\A t \in Callers, a \in Assocs :
         LET r == io'.rsps IN
         (/\ pc[t] = "find_recv" /\ Returns(t, "CFind", a)
          /\ r # <<>>
          /\ \A i \in 1..Len(r) : r[i].body = "all"
          /\ \A i \in 1..(Len(r) - 1) : r[i].status = StatusPending
          /\ r[Len(r)].status = StatusSuccess)
           => /\ out'.res = "ok"
              /\ Len(io'.results) = Len(r) - 1
              /\ \A i \in 1..(Len(r) - 1) : io'.results[i] = r[i].data]_vars

(* C15: when the caller's context is cancelled while a step of its call
   waits on the network, that call ends there with an error and the
   association is left not connected; in the handshake, Connect takes its
   error path, which is to close the association. *)
C15_CancelCloses ==
    [][\A t \in Callers :
         (Acts(t) /\ io'.cancelled)
           => \/ pc[t] = "handshake" /\ pc'[t] = "close"
              \/ /\ out'.who = t
                 /\ out'.res \in {"err", "sendErr", "recvErr"}
                 /\ ~assoc'[cur[t]].isConnected]_vars

(* C16: after an A-ASSOCIATE-AC that accepts no presentation context,
   Connect takes its error path and the association is not handed on as a
   connected one. *)
C16_NoContextRejected ==
    [][\A t \in Callers :
         (pc[t] = "handshake" /\ Acts(t) /\ io'.reply = "AC0")
           => /\ pc'[t] = "close"
              /\ out'.res \notin {"connected", "created"}]_vars

(* C17: a receive that gets fewer body bytes than the PDU header announces
   reports an error: the handshake then takes Connect's error path, CEcho
   and CFind return the receive error. *)
C17_ShortBodyIsError ==
    [][\A t \in Callers :
         /\ (pc[t] = "handshake" /\ Acts(t) /\ io'.reply = "ACpart")
              => pc'[t] = "close"
         /\ (/\ pc[t] \in {"echo_recv", "find_recv"} /\ Acts(t)
             /\ io'.rsps # <<>> /\ Head(io'.rsps).body = "part")
              => out'.res = "recvErr"]_vars

(* C18: the pool mutex is not held while network I/O is under way: no caller
   is between the dial and the end of the handshake, or in the Close that
   follows a failed handshake, with the pool mutex in its hands. *)
C18_NoNetworkUnderPoolLock ==
    \A t \in Callers : pmu = t => pc[t] \notin {"handshake", "close"}

(* C19: when CEcho or CFind returns because a write or a read on the
   transport failed or timed out, the association is not connected. *)
C19_IoErrorCloses ==
    [][\A t \in Callers, a \in Assocs :
         (/\ out'.who = t /\ out'.a = a /\ out'.op \in {"CEcho", "CFind"}
          /\ out'.res \in {"sendErr", "recvErr"})
           => ~assoc'[a].isConnected]_vars

(* C20: on one association at most one exchange is in flight: no two
   callers have each written a request on the same association and are both
   waiting for its response. *)
C20_OneExchangeInFlight ==
    \A t1, t2 \in Callers :
      (/\ t1 # t2
       /\ pc[t1] \in {"echo_recv", "find_recv"}
       /\ pc[t2] \in {"echo_recv", "find_recv"})
        => cur[t1] # cur[t2]

(* C21: Close on a connected association closes the transport and leaves
   the association not connected, whether or not the write of the farewell
   PDU succeeded; what Close returns is the result of closing the transport,
   never the error of that write. *)
C21_CloseAlwaysCloses ==
    [][\A t \in Callers, a \in Assocs :
         (Returns(t, "Close", a) /\ assoc[a].isConnected)
           => /\ ~assoc'[a].isConnected
              /\ assoc'[a].conn = "closed"
              /\ io'.wrote \in {"release", "releaseFailed"}
              /\ out'.res = "err" <=> io'.closed = "error"
              /\ out'.res = "released" <=> io'.closed = "ok"]_vars

(* Close has just returned nil on an association whose A-RELEASE-RQ could
   not be written: the transport is closed all the same. *)
C21_Witness ==
    /\ out.op = "Close" /\ out.res = "released"
    /\ io.wrote = "releaseFailed" /\ io.closed = "ok"
    /\ assoc[out.a].conn = "closed"
    /\ ~assoc[out.a].isConnected

(* C22: the transport of an association on which an A-RELEASE-RQ has been
   written is closed only in a step that has read the A-RELEASE-RP or has
   waited for it until the release timeout. *)
C22_ReleaseAwaitsReply ==
    [][\A a \in Assocs :
         (assoc[a].conn = "open" /\ assoc'[a].conn = "closed" /\ io'.wrote = "release")
           => io'.reply \in {"releaseRP", "timeout"}]_vars

(* IsConnected, which takes a.mu, returns true. *)
ObservedConnected(s) == s.isConnected /\ s.mu = NoThread

(* C23: an association comes to be observed as connected only by the step
   that ends its handshake with an A-ASSOCIATE-AC read, on a transport that
   had been opened and on which the A-ASSOCIATE-RQ was written; while the
   handshake is under way, and after it has failed, no IsConnected returns
   true. *)
C23_ConnectedAfterHandshake ==
    [][\A a \in Assocs :
         /\ (ObservedConnected(assoc'[a]) /\ ~ObservedConnected(assoc[a]))
              => /\ \E t \in Callers :
                      pc[t] = "handshake" /\ cur[t] = a /\ assoc[a].mu = t
                 /\ assoc[a].conn = "open" /\ assoc'[a].conn = "open"
                 /\ io'.wrote = "RQ"
                 /\ io'.reply \in {"AC", "AC0", "ACpart"}
         /\ (\E t \in Callers : pc'[t] \in {"handshake", "close"} /\ cur'[t] = a)
              => ~ObservedConnected(assoc'[a])]_vars

(* Connect has just returned nil after the peer's A-ASSOCIATE-AC, and the
   association is observed as connected. *)
C23_Witness ==
    /\ out.op = "Connect" /\ out.res = "connected"
    /\ io.wrote = "RQ" /\ io.reply = "AC"
    /\ ObservedConnected(assoc[out.a])
    /\ assoc[out.a].conn = "open"

(* C24: the A-ASSOCIATE-RQ is the type byte 0x01, a reserved byte, the
   4-byte big-endian count of the bytes after these 6, and then the protocol
   version 0x0001, 2 reserved bytes, the called title and the calling title on
   16 bytes each, 32 reserved bytes, and the Application Context, the
   Presentation Context and the User Information items. *)
C24_AssociateRequestLayout ==
    pdu # <<>>
      => /\ pdu[1] = 1 /\ pdu[2] = 0
         /\ pdu[3] * 16777216 + pdu[4] * 65536 + pdu[5] * 256 + pdu[6] = Len(pdu) - 6
         /\ pdu[7] = 0 /\ pdu[8] = 1
         /\ pdu[9] = 0 /\ pdu[10] = 0
         /\ \A i \in 1..16 : pdu[10 + i] = PadAET(config.calledAET)[i]
         /\ \A i \in 1..16 : pdu[26 + i] = PadAET(config.callingAET)[i]
         /\ \A i \in 1..32 : pdu[42 + i] = 0
         /\ LET items == BuildApplicationContext \o BuildPresentationContexts
                           \o BuildUserInformation
            IN /\ Len(pdu) = 74 + Len(items)
               /\ \A i \in 1..Len(items) : pdu[74 + i] = items[i]

(* C25: the idle list never holds more than maxSize associations. *)
C25_IdleBounded == Len(connections) <= maxSize

(* Put has just closed a connected association because the idle list was
   full, and the idle list is still full. *)
C25_Witness ==
    /\ out.op = "Put" /\ out.res = "closed"
    /\ io.wrote = "release"
    /\ assoc[out.a].conn = "closed"
    /\ Len(connections) = maxSize

(* C26: no association is twice in the idle list, also when callers Put an
   association that is already idle or two callers Put the same one. *)
C26_NoDuplicateIdle ==
    \A i, j \in 1..Len(connections) : i # j => connections[i] # connections[j]

(* C27: no call deadlocks; in particular no caller tries to lock the mutex
   of an association while it holds that mutex: the Close that Connect calls
   on its failure paths does not find a.mu in the hands of its own caller. *)
C27_NoSelfLock ==
    \A t \in Callers : pc[t] = "close" => assoc[cur[t]].mu # t

(* C28: once Pool.Close has returned, a Put adds nothing to the idle list
   and leaves the association it was given closed. *)
C28_PutAfterPoolClose ==
    [][\A t \in Callers, a \in Assocs :
         (/\ done /\ \A u \in Callers : pc[u] # "poolclose_lock"
          /\ Returns(t, "Put", a))
           => /\ connections' = connections
              /\ ~assoc'[a].isConnected]_vars

(* C29: Pool.Close may be called again: once the pool has been closed, no
   step - a further Pool.Close, after or during the first - panics. *)
C29_PoolCloseAgainReturns ==
    [][done => ~panicked']_vars

(* C30: Connect on a connected association returns nil with no dial and no
   A-ASSOCIATE-RQ; a transport is opened only on an association that is not
   connected, by a caller that takes a.mu with it; an A-ASSOCIATE-RQ is
   written only by the caller that holds a.mu since its dial, once; so of
   the callers that call Connect on one association at once, no two are in
   the handshake together. *)
C30_ConnectOnce ==
    [][\A a \in Assocs :
         /\ \A t \in Callers :
              /\ (pc[t] = "idle" /\ Returns(t, "Connect", a) /\ assoc[a].isConnected)
                   => out'.res = "already" /\ assoc' = assoc /\ io' = NoIo
              /\ (pc[t] = "connect" /\ cur[t] = a /\ Acts(t) /\ assoc[a].isConnected)
                   => pc'[t] # "handshake" /\ assoc' = assoc /\ io' = NoIo
              /\ (pc[t] = "handshake" /\ cur[t] = a /\ Acts(t))
                   => io'.wrote = "RQ" /\ assoc[a].mu = t /\ pc'[t] # "handshake"
         /\ (assoc[a].conn # "open" /\ assoc'[a].conn = "open")
              => /\ ~assoc[a].isConnected
                 /\ assoc[a].mu = NoThread /\ assoc'[a].mu # NoThread
         /\ io'.wrote = "RQ"
              => \E t \in Callers : pc[t] = "handshake" /\ Acts(t)
         /\ \A t1, t2 \in Callers :
              (/\ t1 # t2
               /\ pc'[t1] \in {"handshake", "close"}
               /\ pc'[t2] \in {"handshake", "close"})
                => cur'[t1] # cur'[t2]]_vars

(* A caller's Connect has just returned nil on an association that another
   caller had connected meanwhile, and a third call of Connect on the same
   association, by the other caller, is still waiting. *)
C30_Witness ==
    /\ out.op = "Connect" /\ out.res = "already"
    /\ assoc[out.a].isConnected /\ assoc[out.a].conn = "open"
    /\ \E u \in Callers :
         u # out.who /\ pc[u] = "connect" /\ cur[u] = out.a

====
